---- MODULE Spec2Model ----
(* Model of src/netaccess.py: the /check endpoint (check_connection), the  *)
(* three pydantic request models and the HTTP / IMAP / SMTP probe handlers. *)
(* One request is followed from its arrival to the envelope it returns or   *)
(* the exception it lets escape; every await is a separate step whose       *)
(* outcome is chosen by the peer.                                           *)
EXTENDS Integers, Sequences, FiniteSets, TLC

\* the locals of the request the event loop is running
VARIABLES pc, data, req, result, exc, calls, net, tls_ctx, greeting, transport
\* the certificate of the peer this request talks to
VARIABLES cert
\* the event loop: the task that runs and the locals of the suspended ones
VARIABLES cur, parked

sched == <<cur, parked>>

vars ==
    <<pc, data, req, result, exc, calls, net, tls_ctx, greeting, transport,
      cert, sched>>

(***************************************************************************)
(* Bounds                                                                  *)
(***************************************************************************)
\* largest number of keys outside every declared schema a payload carries
MaxExtra == 1
\* number of requests that can be in flight at once
MaxTasks == 2

(***************************************************************************)
(* Text: a str is a sequence of characters                                 *)
(***************************************************************************)
LowerAlpha == <<"a","b","c","d","e","f","g","h","i","j","k","l","m",
                "n","o","p","q","r","s","t","u","v","w","x","y","z">>
UpperAlpha == <<"A","B","C","D","E","F","G","H","I","J","K","L","M",
                "N","O","P","Q","R","S","T","U","V","W","X","Y","Z">>
Digits == <<"0","1","2","3","4","5","6","7","8","9">>

UpChar(c) ==
    IF \E i \in 1..26 : LowerAlpha[i] = c
    THEN UpperAlpha[CHOOSE i \in 1..26 : LowerAlpha[i] = c]
    ELSE c

LowChar(c) ==
    IF \E i \in 1..26 : UpperAlpha[i] = c
    THEN LowerAlpha[CHOOSE i \in 1..26 : UpperAlpha[i] = c]
    ELSE c

\* a plausible slip: the type is compared as spelled, without normalization
UpperNoop(s) == s

\* str.upper()
Upper(s) == [i \in 1..Len(s) |-> UpChar(s[i])]

\* str.lower()
Lower(s) == [i \in 1..Len(s) |-> LowChar(s[i])]

IsDigit(c) == \E i \in 1..10 : Digits[i] = c

DigitVal(c) == (CHOOSE i \in 1..10 : Digits[i] = c) - 1

RECURSIVE ParseDigits(_)
ParseDigits(s) ==
    IF Len(s) = 0 THEN 0
    ELSE 10 * ParseDigits(SubSeq(s, 1, Len(s) - 1)) + DigitVal(s[Len(s)])

\* the literals of the source
HTTP == <<"H","T","T","P">>
IMAP == <<"I","M","A","P">>
SMTP == <<"S","M","T","P">>
GET == <<"G","E","T">>
UnsupportedPrefix ==
    <<"U","n","s","u","p","p","o","r","t","e","d"," ","t","y","p","e"," ">>
ModeConflictMessage == <<"use_tls=True", "start_tls=True">>

(***************************************************************************)
(* Untyped JSON values of the payload; Absent stands for a missing key     *)
(***************************************************************************)
JStr(s) == [k |-> "str", s |-> s, n |-> 0, b |-> FALSE]
JInt(n) == [k |-> "int", s |-> <<>>, n |-> n, b |-> FALSE]
JBool(b) == [k |-> "bool", s |-> <<>>, n |-> 0, b |-> b]
JNull == [k |-> "null", s |-> <<>>, n |-> 0, b |-> FALSE]
Absent == [k |-> "absent", s |-> <<>>, n |-> 0, b |-> FALSE]

\* dict.get(key, default)
Get(v, default) == IF v.k = "absent" THEN default ELSE v

\* truth value of an Optional[str] field: None and "" are falsy
Truthy(v) == v.k = "str" /\ Len(v.s) > 0

(***************************************************************************)
(* pydantic field validation (lax mode): [ok, v]                           *)
(***************************************************************************)
Invalid == [ok |-> FALSE]
Valid(v) == [ok |-> TRUE, v |-> v]

\* field: str, with or without a default (dflt.ok says whether there is one)
ValidateStr(v, dflt) ==
    CASE v.k = "absent" -> dflt
      [] v.k = "str" -> Valid(v.s)
      [] OTHER -> Invalid

\* a plausible slip: a missing or uncoercible int silently becomes 0
ValidateIntLenient(v, dflt) ==
    CASE v.k = "int" -> Valid(v.n)
      [] v.k = "str" /\ Len(v.s) > 0 /\ (\A i \in 1..Len(v.s) : IsDigit(v.s[i]))
            -> Valid(ParseDigits(v.s))
      [] OTHER -> Valid(0)

\* field: int
ValidateInt(v, dflt) ==
    CASE v.k = "absent" -> dflt
      [] v.k = "int" -> Valid(v.n)
      [] v.k = "str" /\ Len(v.s) > 0 /\ (\A i \in 1..Len(v.s) : IsDigit(v.s[i]))
            -> Valid(ParseDigits(v.s))
      [] OTHER -> Invalid

\* field: float (numbers are modelled as integers)
ValidateFloat(v, dflt) ==
    CASE v.k = "absent" -> dflt
      [] v.k = "int" -> Valid(v.n)
      [] v.k = "str" /\ Len(v.s) > 0 /\ (\A i \in 1..Len(v.s) : IsDigit(v.s[i]))
            -> Valid(ParseDigits(v.s))
      [] OTHER -> Invalid

BoolTrueStrs == {<<"1">>, <<"o","n">>, <<"t">>, <<"t","r","u","e">>,
                 <<"y">>, <<"y","e","s">>}
BoolFalseStrs == {<<"0">>, <<"o","f","f">>, <<"f">>, <<"f","a","l","s","e">>,
                  <<"n">>, <<"n","o">>}

\* field: bool
ValidateBool(v, dflt) ==
    CASE v.k = "absent" -> dflt
      [] v.k = "bool" -> Valid(v.b)
      [] v.k = "int" /\ v.n \in {0, 1} -> Valid(v.n = 1)
      [] v.k = "str" /\ Lower(v.s) \in BoolTrueStrs -> Valid(TRUE)
      [] v.k = "str" /\ Lower(v.s) \in BoolFalseStrs -> Valid(FALSE)
      [] OTHER -> Invalid

\* field: str | None = None
ValidateOptStr(v) ==
    CASE v.k \in {"absent", "null"} -> Valid(JNull)
      [] v.k = "str" -> Valid(v)
      [] OTHER -> Invalid

NoReq == [class |-> "none"]


(***************************************************************************)
(* The typed configurations CheckRequestHTTP, CheckRequestIMAP, ...SMTP    *)
(***************************************************************************)
\* the fields each class declares
HTTPFields == {"type", "address", "port", "timeout", "method", "ssl"}
IMAPFields ==
    {"type", "host", "port", "ssl", "timeout", "username", "password"}
SMTPFields ==
    {"type", "host", "port", "timeout", "use_tls", "start_tls",
     "validate_certs", "username", "password"}

\* a plausible slip: the model is declared with extra = "forbid"
ConstructHTTPForbidExtra(d) ==
    LET type == ValidateStr(d.type, Valid(HTTP))
        address == ValidateStr(d.address, Invalid)
        port == ValidateInt(d.port, Invalid)
        timeout == ValidateFloat(d.timeout, Valid(5))
        method == ValidateStr(d.method, Valid(GET))
        ssl == ValidateBool(d.ssl, Valid(FALSE))
        extras == d.extra > 0 \/ \E f \in SMTPFields \cup IMAPFields :
                                    f \notin HTTPFields /\ d[f].k # "absent"
    IN  IF type.ok /\ address.ok /\ port.ok /\ timeout.ok /\ method.ok /\ ssl.ok
           /\ ~extras
        THEN Valid([class |-> "CheckRequestHTTP", type |-> type.v,
                    address |-> address.v, port |-> port.v,
                    timeout |-> timeout.v, method |-> method.v, ssl |-> ssl.v])
        ELSE Invalid

ConstructHTTP(d) ==
    LET type == ValidateStr(d.type, Valid(HTTP))
        address == ValidateStr(d.address, Invalid)
        port == ValidateInt(d.port, Invalid)
        timeout == ValidateFloat(d.timeout, Valid(5))
        method == ValidateStr(d.method, Valid(GET))
        ssl == ValidateBool(d.ssl, Valid(FALSE))
    IN  IF type.ok /\ address.ok /\ port.ok /\ timeout.ok /\ method.ok /\ ssl.ok
        THEN Valid([class |-> "CheckRequestHTTP", type |-> type.v,
                    address |-> address.v, port |-> port.v,
                    timeout |-> timeout.v, method |-> method.v, ssl |-> ssl.v])
        ELSE Invalid

ConstructIMAP(d) ==
    LET type == ValidateStr(d.type, Valid(IMAP))
        host == ValidateStr(d.host, Invalid)
        port == ValidateInt(d.port, Invalid)
        ssl == ValidateBool(d.ssl, Valid(TRUE))
        timeout == ValidateFloat(d.timeout, Valid(5))
        username == ValidateOptStr(d.username)
        password == ValidateOptStr(d.password)
    IN  IF type.ok /\ host.ok /\ port.ok /\ ssl.ok /\ timeout.ok
           /\ username.ok /\ password.ok
        THEN Valid([class |-> "CheckRequestIMAP", type |-> type.v,
                    host |-> host.v, port |-> port.v, ssl |-> ssl.v,
                    timeout |-> timeout.v, username |-> username.v,
                    password |-> password.v])
        ELSE Invalid

ConstructSMTP(d) ==
    LET type == ValidateStr(d.type, Valid(SMTP))
        host == ValidateStr(d.host, Invalid)
        port == ValidateInt(d.port, Invalid)
        timeout == ValidateFloat(d.timeout, Valid(5))
        use_tls == ValidateBool(d.use_tls, Valid(FALSE))
        start_tls == ValidateBool(d.start_tls, Valid(FALSE))
        validate_certs == ValidateBool(d.validate_certs, Valid(TRUE))
        username == ValidateOptStr(d.username)
        password == ValidateOptStr(d.password)
    IN  IF type.ok /\ host.ok /\ port.ok /\ timeout.ok /\ use_tls.ok
           /\ start_tls.ok /\ validate_certs.ok /\ username.ok /\ password.ok
        THEN Valid([class |-> "CheckRequestSMTP", type |-> type.v,
                    host |-> host.v, port |-> port.v, timeout |-> timeout.v,
                    use_tls |-> use_tls.v, start_tls |-> start_tls.v,
                    validate_certs |-> validate_certs.v,
                    username |-> username.v, password |-> password.v])
        ELSE Invalid

(***************************************************************************)
(* The request payloads the model sends                                    *)
(***************************************************************************)
TypeSpellings ==
    { <<"h","t","t","p">>, HTTP, <<"H","t","t","p">>,
      <<"i","m","a","p">>, IMAP, <<"i","M","a","P">>,
      <<"s","m","t","p">>, SMTP, <<"S","m","t","p">>,
      <<"f","t","p">>, <<"F","T","P">>, <<>> }

TypeValues == {Absent, JNull, JInt(5)} \cup {JStr(s) : s \in TypeSpellings}

\* the mail-shaped payloads carry fewer spellings, to keep the set small
IMAPTypeValues ==
    {Absent, JNull, JStr(<<"i","m","a","p">>), JStr(IMAP),
     JStr(<<"i","M","a","P">>), JStr(<<"f","t","p">>)}
SMTPTypeValues ==
    {Absent, JStr(<<"s","m","t","p">>), JStr(SMTP), JStr(<<"S","m","t","p">>),
     JStr(<<"i","m","a","p">>)}

NoData ==
    [type |-> Absent, address |-> Absent, host |-> Absent, port |-> Absent,
     timeout |-> Absent, method |-> Absent, ssl |-> Absent,
     use_tls |-> Absent, start_tls |-> Absent, validate_certs |-> Absent,
     username |-> Absent, password |-> Absent, extra |-> 0]

PortValues ==
    {Absent, JInt(80), JInt(443), JStr(<<"4","4","3">>), JStr(<<"x">>)}

HTTPShaped ==
    { [NoData EXCEPT !.type = t, !.address = a, !.port = p, !.ssl = s,
                     !.method = m, !.timeout = to, !.extra = x] :
        t \in TypeValues, a \in {Absent, JNull, JStr(<<"a">>)},
        p \in PortValues,
        s \in {Absent, JBool(TRUE), JBool(FALSE), JStr(<<"?">>)},
        m \in {Absent, JStr(<<"h","e","a","d">>)},
        to \in {Absent, JNull}, x \in 0..MaxExtra }

IMAPShaped ==
    { [NoData EXCEPT !.type = t, !.host = h, !.port = p, !.ssl = s,
                     !.username = u, !.password = pw, !.extra = x] :
        t \in IMAPTypeValues, h \in {Absent, JStr(<<"h">>)},
        p \in {Absent, JInt(143), JStr(<<"x">>)},
        s \in {Absent, JBool(TRUE), JBool(FALSE)},
        u \in {Absent, JNull, JStr(<<>>), JStr(<<"u">>)},
        pw \in {Absent, JStr(<<>>), JStr(<<"p">>)}, x \in 0..MaxExtra }

SMTPShaped ==
    { [NoData EXCEPT !.type = t, !.host = h, !.port = p, !.use_tls = ut,
                     !.start_tls = st, !.validate_certs = vc,
                     !.username = u, !.password = pw, !.extra = x] :
        t \in SMTPTypeValues, h \in {Absent, JStr(<<"h">>)},
        p \in {Absent, JInt(25), JStr(<<"x">>)},
        ut \in {Absent, JBool(TRUE), JBool(FALSE)},
        st \in {Absent, JBool(TRUE), JBool(FALSE)},
        vc \in {Absent, JBool(FALSE)},
        u \in {Absent, JStr(<<>>), JStr(<<"u">>)},
        pw \in {Absent, JStr(<<>>), JStr(<<"p">>)}, x \in 0..MaxExtra }

\* well-formed requests of each type that also carry fields of the others
MixedShaped ==
    { [NoData EXCEPT !.type = t, !.address = JStr(<<"a">>),
                     !.host = JStr(<<"h">>), !.port = JInt(25),
                     !.method = m, !.ssl = s, !.use_tls = ut,
                     !.username = u, !.password = JStr(<<"p">>),
                     !.extra = x] :
        t \in {Absent, JStr(<<"h","t","t","p">>), JStr(<<"i","m","a","p">>),
               JStr(<<"s","m","t","p">>)},
        m \in {Absent, JStr(<<"h","e","a","d">>)},
        s \in {Absent, JBool(FALSE)},
        ut \in {Absent, JBool(TRUE)},
        u \in {Absent, JStr(<<"u">>)}, x \in 0..MaxExtra }

Payloads == HTTPShaped \cup IMAPShaped \cup SMTPShaped \cup MixedShaped


(***************************************************************************)
(* check_connection: reading the type and choosing the probe               *)
(***************************************************************************)
\* data.get("type", "HTTP")
RawType(d) == Get(d.type, JStr(HTTP))

\* type_ (defined when the raw type is a str, the only values with .upper)
NormType(d) == Upper(RawType(d).s)

Construct(type_, d) ==
    CASE type_ = HTTP -> ConstructHTTP(d)
      [] type_ = IMAP -> ConstructIMAP(d)
      [] type_ = SMTP -> ConstructSMTP(d)

ClassOf(type_) ==
    CASE type_ = HTTP -> "CheckRequestHTTP"
      [] type_ = IMAP -> "CheckRequestIMAP"
      [] type_ = SMTP -> "CheckRequestSMTP"

(***************************************************************************)
(* Envelopes                                                               *)
(***************************************************************************)
NoResult == [status |-> "none"]

\* a plausible slip: the message echoes the type as the caller spelled it
UnsupportedEnvelopeRaw(d) ==
    [status |-> "fail", error |-> UnsupportedPrefix \o RawType(d).s]

UnsupportedEnvelope(d) ==
    [status |-> "fail", error |-> UnsupportedPrefix \o NormType(d)]

\* {"status": "fail", "type": data.type, "error": str(e)}
FailEnvelope(r, e) == [status |-> "fail", type |-> r.type, error |-> <<e>>]

\* a plausible slip: the scheme needs both port 443 and the ssl flag
ProtocolBoth(r) == IF r.port = 443 /\ r.ssl THEN "https" ELSE "http"

Protocol(r) == IF r.port = 443 \/ r.ssl THEN "https" ELSE "http"

\* a plausible slip: an error status code is reported as a failed probe
HttpEnvelopeStrict(r, response) ==
    IF response.status_code >= 400
    THEN FailEnvelope(r, "HTTPStatusError")
    ELSE [status |-> "success", protocol |-> Protocol(r), type |-> r.type,
          code |-> response.status_code, headers |-> response.headers,
          body |-> response.text]

HttpEnvelope(r, response) ==
    [status |-> "success", protocol |-> Protocol(r), type |-> r.type,
     code |-> response.status_code, headers |-> response.headers,
     body |-> response.text]

ImapEnvelope(r) ==
    [status |-> "success", type |-> r.type,
     protocol |-> "imap" \o (IF r.ssl THEN "s" ELSE ""),
     message |-> "IMAP connected!"]

\* a plausible slip: the logout sits in the outer try, so its fault is reported
ImapLogoutEnvelopeStrict(r, outcome) ==
    IF outcome = "ok" THEN ImapEnvelope(r) ELSE FailEnvelope(r, outcome)

\* try: logout  except Exception: pass  -- the outcome is discarded
ImapLogoutEnvelope(r, outcome) == ImapEnvelope(r)

\* a plausible slip: the STARTTLS branch is forgotten
ModeWithoutStarttls(r) == IF r.use_tls THEN "SMTPS" ELSE "PLAIN"

Mode(r) ==
    IF r.use_tls THEN "SMTPS"
    ELSE IF r.start_tls THEN "SMTP+STARTTLS" ELSE "PLAIN"

SmtpEnvelope(r, g) ==
    [status |-> "success", type |-> r.type, protocol |-> "smtp",
     greeting_code |-> g.code, greeting_message |-> g.msg,
     mode |-> Mode(r), validate_certs |-> r.validate_certs]

ModeConflictEnvelope(r) ==
    [status |-> "fail", type |-> r.type, error |-> ModeConflictMessage]

(***************************************************************************)
(* The peers                                                               *)
(***************************************************************************)
StatusCodes == {200, 404, 500}
Responses ==
    {[status_code |-> c, headers |-> <<>>, text |-> <<>>] : c \in StatusCodes}
HttpFaults == {"ConnectError", "ReadTimeout", "SSLError", "RemoteProtocolError"}
ImapFaults == {"TimeoutError", "Abort"}
SmtpFaults == {"SMTPTimeoutError", "SMTPException"}
Greetings == {[code |-> 220, msg |-> <<"ready">>]}
NoGreeting == [code |-> 0, msg |-> <<>>]

\* the faults that are the expiry of the request's timeout
Timeouts == {"ReadTimeout", "TimeoutError", "SMTPTimeoutError"}

\* a plausible slip: the greeting is awaited without wait_for
TimedStepsBareHello ==
    {"http_request", "imap_login", "imap_logout",
     "smtp_connect", "smtp_starttls", "smtp_login", "smtp_quit"}

\* the awaits that run under the request's timeout: AsyncClient(timeout=),
\* the three asyncio.wait_for of handle_imap, aiosmtplib.SMTP(timeout=)
TimedSteps ==
    {"http_request", "imap_hello", "imap_login", "imap_logout",
     "smtp_connect", "smtp_starttls", "smtp_login", "smtp_quit"}

\* a step can end in a timeout only if it runs under one
CanRaise(step, e) == e \in Timeouts => step \in TimedSteps

NoCtx == [check_hostname |-> FALSE, verify_mode |-> "unset"]

\* a plausible slip: only the hostname check is relaxed
TlsContextHostnameOnly(r) ==
    IF r.validate_certs
    THEN [check_hostname |-> TRUE, verify_mode |-> "CERT_REQUIRED"]
    ELSE [check_hostname |-> FALSE, verify_mode |-> "CERT_REQUIRED"]

\* ssl.create_default_context(), relaxed when validate_certs is false
TlsContext(r) ==
    IF r.validate_certs
    THEN [check_hostname |-> TRUE, verify_mode |-> "CERT_REQUIRED"]
    ELSE [check_hostname |-> FALSE, verify_mode |-> "CERT_NONE"]

\* what the peer presents in a TLS handshake
Certs == {"trusted", "selfsigned"}

\* the handshake under context ctx goes through with certificate c
TlsAccepts(ctx, c) == c = "trusted" \/ ctx.verify_mode = "CERT_NONE"

\* a network step is logged when it is started and completed with its outcome
Step(op) == [op |-> op, out |-> "pending"]
Complete(log, out) == [log EXCEPT ![Len(log)].out = out]

\* a plausible slip: the test is "is not None", so "" counts as given
WantsLoginNotNone(r) == r.username.k = "str" /\ r.password.k = "str"

\* if data.username and data.password
WantsLogin(r) == Truthy(r.username) /\ Truthy(r.password)

(***************************************************************************)
(* State                                                                   *)
(***************************************************************************)
Tasks == 1..MaxTasks

\* the locals of a task that has no request
IdleLocals ==
    [pc |-> "idle", data |-> NoData, req |-> NoReq, result |-> NoResult,
     exc |-> "none", calls |-> <<>>, net |-> <<>>, tls_ctx |-> NoCtx,
     greeting |-> NoGreeting, transport |-> 0, cert |-> "none"]

\* the locals of the running task
Locals ==
    [pc |-> pc, data |-> data, req |-> req, result |-> result, exc |-> exc,
     calls |-> calls, net |-> net, tls_ctx |-> tls_ctx,
     greeting |-> greeting, transport |-> transport, cert |-> cert]

Init ==
    /\ pc = "idle"
    /\ data = NoData
    /\ req = NoReq
    /\ result = NoResult
    /\ exc = "none"
    /\ calls = <<>>
    /\ net = <<>>
    /\ tls_ctx = NoCtx
    /\ greeting = NoGreeting
    /\ transport = 0
    /\ cert = "none"
    /\ cur = 1
    /\ parked = [t \in Tasks |-> IdleLocals]

\* POST /check arrives with a JSON object
Receive ==
    /\ pc = "idle"
    /\ \E p \in Payloads : data' = p
    /\ pc' = "received"
    /\ transport' = 0
    /\ UNCHANGED <<req, result, exc, calls, net, tls_ctx, greeting,
                 cert, sched>>

\* .upper() on a value that is not a str
DispatchTypeFault ==
    /\ pc = "received"
    /\ RawType(data).k # "str"
    /\ pc' = "raised"
    /\ exc' = "AttributeError"
    /\ UNCHANGED <<data, req, result, calls, net, tls_ctx, greeting, transport,
                 cert, sched>>

DispatchUnsupported ==
    /\ pc = "received"
    /\ RawType(data).k = "str"
    /\ NormType(data) \notin {HTTP, IMAP, SMTP}
    /\ result' = UnsupportedEnvelope(data)
    /\ pc' = "returned"
    /\ UNCHANGED <<data, req, exc, calls, net, tls_ctx, greeting, transport,
                 cert, sched>>

\* CheckRequestX(**data) raises ValidationError; nothing catches it
DispatchConstructFault ==
    /\ pc = "received"
    /\ RawType(data).k = "str"
    /\ NormType(data) \in {HTTP, IMAP, SMTP}
    /\ ~Construct(NormType(data), data).ok
    /\ calls' = Append(calls, ClassOf(NormType(data)))
    /\ pc' = "raised"
    /\ exc' = "ValidationError"
    /\ UNCHANGED <<data, req, result, net, tls_ctx, greeting, transport,
                 cert, sched>>

(***************************************************************************)
(* handle_http                                                             *)
(***************************************************************************)
DispatchHTTP ==
    /\ pc = "received"
    /\ RawType(data).k = "str"
    /\ NormType(data) = HTTP
    /\ ConstructHTTP(data).ok
    /\ req' = ConstructHTTP(data).v
    /\ calls' = calls \o <<"CheckRequestHTTP", "handle_http">>
    /\ net' = Append(net, [op |-> "request", out |-> "pending",
                           method |-> Upper(req'.method),
                           scheme |-> Protocol(req'),
                           address |-> req'.address, port |-> req'.port,
                           code |-> 0])
    /\ pc' = "http_request"
    /\ UNCHANGED <<data, result, exc, tls_ctx, greeting, transport,
                 cert, sched>>

HttpResponse ==
    /\ pc = "http_request"
    /\ \E response \in Responses :
          /\ net' = [net EXCEPT ![Len(net)].out = "response",
                                ![Len(net)].code = response.status_code]
          /\ result' = HttpEnvelope(req, response)
    /\ pc' = "returned"
    /\ UNCHANGED <<data, req, exc, calls, tls_ctx, greeting, transport,
                 cert, sched>>

HttpFault ==
    /\ pc = "http_request"
    /\ \E e \in HttpFaults :
          /\ CanRaise(pc, e)
          /\ net' = Complete(net, e)
          /\ result' = FailEnvelope(req, e)
    /\ pc' = "returned"
    /\ UNCHANGED <<data, req, exc, calls, tls_ctx, greeting, transport,
                 cert, sched>>


(***************************************************************************)
(* handle_imap                                                             *)
(***************************************************************************)
ImapClass(r) == IF r.ssl THEN "IMAP4_SSL" ELSE "IMAP4"

\* the client is created and the wait for the greeting starts
DispatchIMAP ==
    /\ pc = "received"
    /\ RawType(data).k = "str"
    /\ NormType(data) = IMAP
    /\ ConstructIMAP(data).ok
    /\ req' = ConstructIMAP(data).v
    /\ calls' = calls \o <<"CheckRequestIMAP", "handle_imap">>
    /\ net' = net \o <<[op |-> ImapClass(req'), out |-> "ok"],
                       Step("wait_hello_from_server")>>
    /\ pc' = "imap_hello"
    /\ UNCHANGED <<data, result, exc, tls_ctx, greeting, transport,
                 cert, sched>>

\* creating the client raises
DispatchIMAPOpenFault ==
    /\ pc = "received"
    /\ RawType(data).k = "str"
    /\ NormType(data) = IMAP
    /\ ConstructIMAP(data).ok
    /\ req' = ConstructIMAP(data).v
    /\ calls' = calls \o <<"CheckRequestIMAP", "handle_imap">>
    /\ \E e \in ImapFaults :
          /\ net' = Append(net, [op |-> ImapClass(req'), out |-> e])
          /\ result' = FailEnvelope(req', e)
    /\ pc' = "returned"
    /\ UNCHANGED <<data, exc, tls_ctx, greeting, transport, cert, sched>>

ImapHelloOk ==
    /\ pc = "imap_hello"
    /\ IF WantsLogin(req)
       THEN /\ net' = Append(Complete(net, "ok"), Step("login"))
            /\ pc' = "imap_login"
       ELSE /\ net' = Append(Complete(net, "ok"), Step("logout"))
            /\ pc' = "imap_logout"
    /\ UNCHANGED <<data, req, result, exc, calls, tls_ctx, greeting, transport,
                 cert, sched>>

ImapHelloFault ==
    /\ pc = "imap_hello"
    /\ \E e \in ImapFaults :
          /\ CanRaise(pc, e)
          /\ net' = Complete(net, e)
          /\ result' = FailEnvelope(req, e)
    /\ pc' = "returned"
    /\ UNCHANGED <<data, req, exc, calls, tls_ctx, greeting, transport,
                 cert, sched>>

\* client.login returns the server's response, OK or NO; it is not inspected
ImapLoginReturns ==
    /\ pc = "imap_login"
    /\ \E response \in {"OK", "NO"} :
          net' = Append(Complete(net, response), Step("logout"))
    /\ pc' = "imap_logout"
    /\ UNCHANGED <<data, req, result, exc, calls, tls_ctx, greeting, transport,
                 cert, sched>>

ImapLoginFault ==
    /\ pc = "imap_login"
    /\ \E e \in ImapFaults :
          /\ CanRaise(pc, e)
          /\ net' = Complete(net, e)
          /\ result' = FailEnvelope(req, e)
    /\ pc' = "returned"
    /\ UNCHANGED <<data, req, exc, calls, tls_ctx, greeting, transport,
                 cert, sched>>

ImapLogoutDone ==
    /\ pc = "imap_logout"
    /\ \E outcome \in {"ok"} \cup ImapFaults :
          /\ CanRaise(pc, outcome)
          /\ net' = Complete(net, outcome)
          /\ result' = ImapLogoutEnvelope(req, outcome)
    /\ pc' = "returned"
    /\ UNCHANGED <<data, req, exc, calls, tls_ctx, greeting, transport,
                 cert, sched>>

(***************************************************************************)
(* handle_smtp                                                             *)
(***************************************************************************)
\* a plausible slip: the pre-check is missing
ModeConflictUnchecked(r) == FALSE

\* if data.use_tls and data.start_tls
ModeConflict(r) == r.use_tls /\ r.start_tls

DispatchSMTPConflict ==
    /\ pc = "received"
    /\ RawType(data).k = "str"
    /\ NormType(data) = SMTP
    /\ ConstructSMTP(data).ok
    /\ req' = ConstructSMTP(data).v
    /\ ModeConflict(req')
    /\ calls' = calls \o <<"CheckRequestSMTP", "handle_smtp">>
    /\ result' = ModeConflictEnvelope(req')
    /\ pc' = "returned"
    /\ UNCHANGED <<data, exc, net, tls_ctx, greeting, transport, cert, sched>>

\* the context and the client are built and connect starts
DispatchSMTP ==
    /\ pc = "received"
    /\ RawType(data).k = "str"
    /\ NormType(data) = SMTP
    /\ ConstructSMTP(data).ok
    /\ req' = ConstructSMTP(data).v
    /\ ~ModeConflict(req')
    /\ calls' = calls \o <<"CheckRequestSMTP", "handle_smtp">>
    /\ tls_ctx' = TlsContext(req')
    /\ net' = Append(net, [op |-> "connect", out |-> "pending",
                           use_tls |-> req'.use_tls, ctx |-> tls_ctx'])
    /\ cert' \in Certs
    /\ pc' = "smtp_connect"
    /\ UNCHANGED <<data, result, exc, greeting, transport, sched>>

\* the step that follows a completed starttls (or connect without start_tls)
SmtpAfterUpgrade(r, log) ==
    IF WantsLogin(r)
    THEN [pc |-> "smtp_login", net |-> Append(log, Step("login"))]
    ELSE [pc |-> "smtp_quit", net |-> Append(log, Step("quit"))]

\* a plausible slip: the upgrade is skipped and login goes out in clear
SmtpAfterConnectNoUpgrade(r, log, ctx) == SmtpAfterUpgrade(r, log)

\* the step that follows a completed connect
SmtpAfterConnect(r, log, ctx) ==
    IF r.start_tls
    THEN [pc |-> "smtp_starttls",
          net |-> Append(log, [op |-> "starttls", out |-> "pending",
                               ctx |-> ctx])]
    ELSE SmtpAfterUpgrade(r, log)

SmtpConnectOk ==
    /\ pc = "smtp_connect"
    /\ req.use_tls => TlsAccepts(net[Len(net)].ctx, cert)
    /\ \E g \in Greetings : greeting' = g
    /\ net' = SmtpAfterConnect(req, Complete(net, "ok"), tls_ctx).net
    /\ pc' = SmtpAfterConnect(req, Complete(net, "ok"), tls_ctx).pc
    /\ UNCHANGED <<data, req, result, exc, calls, tls_ctx, transport,
                 cert, sched>>

SmtpStarttlsOk ==
    /\ pc = "smtp_starttls"
    /\ TlsAccepts(net[Len(net)].ctx, cert)
    /\ net' = SmtpAfterUpgrade(req, Complete(net, "ok")).net
    /\ pc' = SmtpAfterUpgrade(req, Complete(net, "ok")).pc
    /\ UNCHANGED <<data, req, result, exc, calls, tls_ctx, greeting, transport,
                 cert, sched>>

SmtpLoginOk ==
    /\ pc = "smtp_login"
    /\ net' = Append(Complete(net, "ok"), Step("quit"))
    /\ pc' = "smtp_quit"
    /\ UNCHANGED <<data, req, result, exc, calls, tls_ctx, greeting, transport,
                 cert, sched>>

SmtpQuitOk ==
    /\ pc = "smtp_quit"
    /\ net' = Complete(net, "ok")
    /\ result' = SmtpEnvelope(req, greeting)
    /\ pc' = "returned"
    /\ UNCHANGED <<data, req, exc, calls, tls_ctx, greeting, transport,
                 cert, sched>>

\* a plausible slip: quit is best-effort, as logout is in handle_imap
SmtpFaultEnvelopeQuitSwallowed(r, g, step, e) ==
    IF step = "smtp_quit" THEN SmtpEnvelope(r, g) ELSE FailEnvelope(r, e)

\* except Exception as e, whichever step raised
SmtpFaultEnvelope(r, g, step, e) == FailEnvelope(r, e)

\* connect, starttls, login or quit raises
SmtpStepFault ==
    /\ pc \in {"smtp_connect", "smtp_starttls", "smtp_login", "smtp_quit"}
    /\ \E e \in SmtpFaults :
          /\ CanRaise(pc, e)
          /\ net' = Complete(net, e)
          /\ result' = SmtpFaultEnvelope(req, greeting, pc, e)
    /\ pc' = "returned"
    /\ UNCHANGED <<data, req, exc, calls, tls_ctx, greeting, transport,
                 cert, sched>>

(***************************************************************************)
(* The transport layer answers (200 with the envelope, 500 for an exception *)
(* that escaped) and the request's locals are dropped                       *)
(***************************************************************************)
Respond ==
    /\ pc \in {"returned", "raised"}
    /\ pc' = "idle"
    /\ data' = NoData
    /\ req' = NoReq
    /\ result' = NoResult
    /\ exc' = "none"
    /\ calls' = <<>>
    /\ net' = <<>>
    /\ tls_ctx' = NoCtx
    /\ greeting' = NoGreeting
    /\ transport' = IF pc = "returned" THEN 200 ELSE 500
    /\ cert' = "none"
    /\ UNCHANGED sched

Next ==
    \/ Receive
    \/ DispatchTypeFault
    \/ DispatchUnsupported
    \/ DispatchConstructFault
    \/ DispatchHTTP
    \/ HttpResponse
    \/ HttpFault
    \/ DispatchIMAP
    \/ DispatchIMAPOpenFault
    \/ ImapHelloOk
    \/ ImapHelloFault
    \/ ImapLoginReturns
    \/ ImapLoginFault
    \/ ImapLogoutDone
    \/ DispatchSMTPConflict
    \/ DispatchSMTP
    \/ SmtpConnectOk
    \/ SmtpStarttlsOk
    \/ SmtpLoginOk
    \/ SmtpQuitOk
    \/ SmtpStepFault
    \/ Respond

Spec == Init /\ [][Next]_vars

(***************************************************************************)
(* Several requests in flight: the event loop runs one task at a time and  *)
(* may switch to another one whenever the running one is at an await       *)
(***************************************************************************)
\* a plausible slip: one module-level context is used by every request
SharedCtx(saved, live) == live

\* tls_ctx is a local of handle_smtp: a resumed task sees its own
LocalCtx(saved, live) == saved

Switch ==
    \E t \in Tasks \ {cur} :
        /\ cur' = t
        /\ parked' = [parked EXCEPT ![cur] = Locals, ![t] = IdleLocals]
        /\ pc' = parked[t].pc
        /\ data' = parked[t].data
        /\ req' = parked[t].req
        /\ result' = parked[t].result
        /\ exc' = parked[t].exc
        /\ calls' = parked[t].calls
        /\ net' = parked[t].net
        /\ tls_ctx' = LocalCtx(parked[t].tls_ctx, tls_ctx)
        /\ greeting' = parked[t].greeting
        /\ transport' = parked[t].transport
        /\ cert' = parked[t].cert

\* the requests sent while others are in flight
ConcPayloads ==
    { [NoData EXCEPT !.type = JStr(<<"s","m","t","p">>),
                     !.host = JStr(<<"h">>), !.port = JInt(25),
                     !.start_tls = JBool(TRUE), !.validate_certs = vc] :
        vc \in {Absent, JBool(FALSE)} }
    \cup { [NoData EXCEPT !.address = JStr(<<"a">>), !.port = JInt(443)],
           [NoData EXCEPT !.type = JStr(IMAP), !.host = JStr(<<"h">>),
                          !.port = JInt(143)] }

ReceiveConc ==
    /\ pc = "idle"
    /\ \E p \in ConcPayloads : data' = p
    /\ pc' = "received"
    /\ transport' = 0
    /\ UNCHANGED <<req, result, exc, calls, net, tls_ctx, greeting, cert,
                   sched>>

ConcNext ==
    \/ ReceiveConc
    \/ Switch
    \/ DispatchHTTP
    \/ HttpResponse
    \/ HttpFault
    \/ DispatchIMAP
    \/ DispatchIMAPOpenFault
    \/ ImapHelloOk
    \/ ImapHelloFault
    \/ ImapLogoutDone
    \/ DispatchSMTP
    \/ SmtpConnectOk
    \/ SmtpStarttlsOk
    \/ SmtpQuitOk
    \/ SmtpStepFault

ConcSpec == Init /\ [][ConcNext]_vars

\* the timeout of the pending step expires
Expiry ==
    /\ pc \in TimedSteps
    /\ HttpFault \/ ImapHelloFault \/ ImapLoginFault \/ ImapLogoutDone
          \/ SmtpStepFault
    /\ net'[Len(net')].out \in Timeouts

\* a peer may stay silent for ever, a running timer does expire
FairSpec == Spec /\ WF_vars(Expiry)

TypeOK ==
    /\ pc \in {"idle", "received", "http_request", "imap_hello", "imap_login",
               "imap_logout", "smtp_connect", "smtp_starttls", "smtp_login",
               "smtp_quit", "returned", "raised"}
    /\ result.status \in {"none", "success", "fail"}


(***************************************************************************)
(* Properties                                                              *)
(***************************************************************************)
Handlers == {"handle_http", "handle_imap", "handle_smtp"}
Invoked == {i \in DOMAIN calls : calls[i] \in Handlers}
Dispatched == pc \notin {"idle", "received"}
Ended == pc \in {"returned", "raised"}

\* s spells t in some letter case
Spells(s, t) ==
    /\ Len(s) = Len(t)
    /\ \A i \in 1..Len(s) : LowChar(s[i]) = LowChar(t[i])

\* the payload asks for probe t (t is HTTP, IMAP or SMTP)
AsksFor(t) ==
    \/ data.type.k = "str" /\ Spells(data.type.s, t)
    \/ data.type.k = "absent" /\ t = HTTP

\* v cannot be read as an int
NotAnInt(v) ==
    \/ v.k \in {"absent", "null"}
    \/ v.k = "str" /\ (v.s = <<>> \/ \E i \in 1..Len(v.s) : ~IsDigit(v.s[i]))

\* a required field of the probe the payload asks for is missing or malformed
Malformed ==
    \/ AsksFor(HTTP) /\ (data.address.k # "str" \/ NotAnInt(data.port))
    \/ AsksFor(IMAP) /\ (data.host.k # "str" \/ NotAnInt(data.port))
    \/ AsksFor(SMTP) /\ (data.host.k # "str" \/ NotAnInt(data.port))

\* C1: when the typed configuration of an HTTP, IMAP or SMTP request cannot
\* be constructed, check_connection returns a "fail" envelope with an error
\* string and the construction fault does not escape it.
C1_ConstructionFaultReported ==
    (Ended /\ Malformed) =>
        /\ pc = "returned"
        /\ result.status = "fail"
        /\ "error" \in DOMAIN result

\* C2: when a required field is missing or malformed, no client or
\* connection is opened and no probe handler runs, for all three probe types.
C2_NoNetworkOnConstructionFailure ==
    (Dispatched /\ (Malformed \/ exc = "ValidationError")) =>
        /\ net = <<>>
        /\ Invoked = {}
        /\ tls_ctx = NoCtx

C2_Witness ==
    /\ pc = "raised"
    /\ AsksFor(SMTP)
    /\ data.host.k = "absent"
    /\ data.port = JInt(25)
    /\ calls = <<"CheckRequestSMTP">>
    /\ net = <<>>

\* C3: whatever is stored under the type key (absent, a string in any case,
\* null, a number), reading and upper-casing it does not fault: no request
\* ends with the AttributeError of .upper() escaping check_connection.
C3_TypeReadNeverFaults ==
    (Dispatched /\ data.type.k \notin {"absent", "str"}) =>
        /\ pc # "raised"
        /\ (pc = "returned" => result.status \in {"success", "fail"})

\* C4: a type that normalizes to none of HTTP, IMAP, SMTP returns exactly
\* {status: "fail", error: "Unsupported type <TYPE>"} with the upper-cased
\* type; no configuration is constructed, no handler runs, no network step.
C4_UnsupportedEnvelope ==
    (Dispatched /\ data.type.k = "str"
       /\ ~Spells(data.type.s, HTTP) /\ ~Spells(data.type.s, IMAP)
       /\ ~Spells(data.type.s, SMTP)) =>
        /\ pc = "returned"
        /\ result = [status |-> "fail",
                     error |-> UnsupportedPrefix \o Upper(data.type.s)]
        /\ (data.type.s = <<"f","t","p">> =>
               result.error = UnsupportedPrefix \o <<"F","T","P">>)
        /\ calls = <<>>
        /\ net = <<>>
        /\ req = NoReq

C4_Witness ==
    /\ pc = "returned"
    /\ data.type = JStr(<<"f","t","p">>)
    /\ result = [status |-> "fail",
                 error |-> UnsupportedPrefix \o <<"F","T","P">>]
    /\ net = <<>>

\* the configuration class and the handler of probe t
ClassFor(t) ==
    CASE t = HTTP -> "CheckRequestHTTP"
      [] t = IMAP -> "CheckRequestIMAP"
      [] t = SMTP -> "CheckRequestSMTP"
HandlerFor(t) ==
    CASE t = HTTP -> "handle_http"
      [] t = IMAP -> "handle_imap"
      [] t = SMTP -> "handle_smtp"

\* C5: the probe is chosen by the case-normalized type alone: an absent type
\* and every spelling of "http" go to the HTTP probe, every spelling of
\* "imap" / "smtp" to the IMAP / SMTP probe; at most one handler is invoked.
C5_DispatchByNormalizedType ==
    /\ Cardinality(Invoked) <= 1
    /\ \A t \in {HTTP, IMAP, SMTP} :
          (Dispatched /\ AsksFor(t)) =>
              IF pc = "raised"
              THEN calls = <<ClassFor(t)>>
              ELSE calls = <<ClassFor(t), HandlerFor(t)>>

C5_Witness ==
    /\ pc = "returned"
    /\ data.type = JStr(<<"i","M","a","P">>)
    /\ calls = <<"CheckRequestIMAP", "handle_imap">>
    /\ result.status = "success"

\* C6: an envelope produced by a probe carries the probe's canonical type,
\* "HTTP", "IMAP" or "SMTP", whatever the spelling of the request's type.
C6_CanonicalType ==
    \A t \in {HTTP, IMAP, SMTP} :
        (pc = "returned" /\ HandlerFor(t) \in {calls[i] : i \in DOMAIN calls})
            => result.type = t

\* C7: the HTTP probe uses "https" exactly when port = 443 or ssl is true,
\* "http" otherwise, both as the scheme of the URL it requests
\* (scheme://address:port) and as the protocol it reports.
C7_HttpsIffPort443OrSsl ==
    (req.class = "CheckRequestHTTP") =>
        LET https == req.port = 443 \/ req.ssl
            sent == net[1]
        IN  /\ sent.op = "request"
            /\ sent.scheme \in {"http", "https"}
            /\ (sent.scheme = "https") <=> https
            /\ sent.address = req.address
            /\ sent.port = req.port
            /\ (data.port \in {JInt(443), JStr(<<"4","4","3">>)}
                   => sent.scheme = "https")
            /\ (data.port = JInt(80) /\ data.ssl.k = "absent"
                   => sent.scheme = "http")
            /\ (result.status = "success" => result.protocol = sent.scheme)

C7_Witness ==
    /\ pc = "returned"
    /\ req.class = "CheckRequestHTTP"
    /\ req.port = 80
    /\ req.ssl
    /\ result.status = "success"
    /\ result.protocol = "https"
    /\ net[1].scheme = "https"

\* C8: the HTTP probe issues exactly one request; if it completes with any
\* status code the envelope is "success" with that code, and "fail" is
\* returned only when the request itself faulted.
C8_StatusCodeIsNotFailure ==
    (req.class = "CheckRequestHTTP") =>
        /\ Len(net) = 1
        /\ (pc = "returned") =>
              /\ net[1].out \in {"response"} \cup HttpFaults
              /\ (net[1].out = "response" =>
                     /\ result.status = "success"
                     /\ result.code = net[1].code)
              /\ (net[1].out \in HttpFaults <=> result.status = "fail")

C8_Witness ==
    /\ pc = "returned"
    /\ req.class = "CheckRequestHTTP"
    /\ net[1].out = "response"
    /\ net[1].code = 404
    /\ result.status = "success"
    /\ result.code = 404

\* the outcome of the step op of the current probe, "none" if not started
OutcomeOf(op) ==
    IF \E i \in DOMAIN net : net[i].op = op
    THEN net[CHOOSE i \in DOMAIN net : net[i].op = op].out
    ELSE "none"

\* C9: in the IMAP probe, once the greeting arrived and the login (when
\* attempted) succeeded, the result is "success" whatever logout does: a
\* logout that faults or times out neither fails the probe nor escapes.
C9_LogoutSwallowed ==
    (req.class = "CheckRequestIMAP" /\ Ended
       /\ OutcomeOf("wait_hello_from_server") = "ok"
       /\ OutcomeOf("login") \in {"none", "OK"}) =>
        /\ pc = "returned"
        /\ OutcomeOf("logout") \in {"ok"} \cup ImapFaults
        /\ result.status = "success"

C9_Witness ==
    /\ pc = "returned"
    /\ req.class = "CheckRequestIMAP"
    /\ OutcomeOf("login") = "OK"
    /\ OutcomeOf("logout") = "TimeoutError"
    /\ result.status = "success"

\* C10: in the IMAP probe a fault in a mandatory step gives "fail", and
\* "success" is returned only after the greeting was received and, when a
\* login was attempted, the login succeeded (a rejected login gives "fail").
C10_SuccessOnlyAfterMandatorySteps ==
    (req.class = "CheckRequestIMAP" /\ pc = "returned") =>
        /\ (result.status = "success" =>
               /\ OutcomeOf("wait_hello_from_server") = "ok"
               /\ OutcomeOf("login") \in {"none", "OK"})
        /\ (result.status = "fail" =>
               /\ "type" \in DOMAIN result
               /\ "error" \in DOMAIN result)


\* C11: when use_tls and start_tls are both true the SMTP probe returns at
\* once with status "fail", the type and the mode-conflict error; no TLS
\* context is built and no connect, starttls, login or quit is attempted.
C11_ModeConflictNoNetwork ==
    (req.class = "CheckRequestSMTP" /\ req.use_tls /\ req.start_tls) =>
        /\ pc = "returned"
        /\ result = [status |-> "fail", type |-> req.type,
                     error |-> ModeConflictMessage]
        /\ net = <<>>
        /\ tls_ctx = NoCtx

C11_Witness ==
    /\ pc = "returned"
    /\ req.class = "CheckRequestSMTP"
    /\ data.use_tls = JBool(TRUE)
    /\ data.start_tls = JBool(TRUE)
    /\ WantsLogin(req)
    /\ result.error = ModeConflictMessage
    /\ net = <<>>

\* the SMTP probe passed its pre-check and ended
SmtpProbed ==
    /\ req.class = "CheckRequestSMTP"
    /\ pc = "returned"
    /\ ~(req.use_tls /\ req.start_tls)

\* C12: in the SMTP probe a fault in connect, starttls, login or quit gives
\* "fail" (a quit that fails after everything else succeeded included), and
\* "success" is returned only when connect, the requested starttls, the
\* requested login and quit all completed without fault.
C12_SmtpAnyFaultFails ==
    SmtpProbed =>
        /\ (\E i \in DOMAIN net : net[i].out \in SmtpFaults)
              => result.status = "fail"
        /\ result.status = "success" =>
              /\ OutcomeOf("connect") = "ok"
              /\ OutcomeOf("quit") = "ok"
              /\ req.start_tls => OutcomeOf("starttls") = "ok"
              /\ (Truthy(req.username) /\ Truthy(req.password))
                    => OutcomeOf("login") = "ok"
        /\ result.status \in {"success", "fail"}

C12_Witness ==
    /\ SmtpProbed
    /\ req.start_tls
    /\ OutcomeOf("starttls") = "ok"
    /\ OutcomeOf("login") = "ok"
    /\ OutcomeOf("quit") \in SmtpFaults
    /\ result.status = "fail"


\* some entry of the step log is a login
LoginAttempted == \E i \in DOMAIN net : net[i].op = "login"

\* the IMAP or SMTP probe has passed the point where it decides on login
LoginDecided ==
    \/ /\ req.class = "CheckRequestIMAP"
       /\ OutcomeOf("wait_hello_from_server") = "ok"
    \/ /\ req.class = "CheckRequestSMTP"
       /\ OutcomeOf("connect") = "ok"
       /\ req.start_tls => OutcomeOf("starttls") = "ok"

\* the request carries x (the key is there and its value is not null)
Present(x) == x.k \notin {"absent", "null"}
NonEmpty(x) == x.k = "str" /\ x.s # <<>>

\* C13 as stated: in the IMAP and the SMTP probe, login is attempted if and
\* only if username and password are both present (neither null nor absent).
C13_LoginIffBothPresent ==
    LoginDecided =>
        (LoginAttempted <=> (Present(data.username) /\ Present(data.password)))

\* C13, amended: in the IMAP and the SMTP probe, login is attempted if and
\* only if username and password are both non-empty strings; if either is
\* absent, null or empty, login is skipped and the probe goes straight to
\* logout / quit, so it can still succeed.
C13_LoginIffBothNonEmpty ==
    LoginDecided =>
        /\ LoginAttempted <=> (NonEmpty(data.username) /\ NonEmpty(data.password))
        /\ (~LoginAttempted /\ pc = "returned"
              /\ (req.class = "CheckRequestSMTP" => OutcomeOf("quit") = "ok"))
              => result.status = "success"

C13_Witness ==
    /\ pc = "returned"
    /\ req.class = "CheckRequestIMAP"
    /\ data.username = JStr(<<>>)
    /\ data.password = JStr(<<"p">>)
    /\ ~LoginAttempted
    /\ result.status = "success"

\* C17: in an SMTP success envelope mode is "SMTPS" exactly when use_tls,
\* "SMTP+STARTTLS" exactly when start_tls and not use_tls, "PLAIN" exactly
\* when neither; the mode agrees with the steps performed (connect with
\* use_tls for SMTPS, a completed starttls for SMTP+STARTTLS, neither for
\* PLAIN) and validate_certs echoes the request's flag.
C17_ModeMatchesSteps ==
    (SmtpProbed /\ result.status = "success") =>
        /\ result.mode \in {"SMTPS", "SMTP+STARTTLS", "PLAIN"}
        /\ result.mode = "SMTPS" <=> req.use_tls
        /\ result.mode = "SMTP+STARTTLS" <=> (req.start_tls /\ ~req.use_tls)
        /\ result.mode = "PLAIN" <=> (~req.start_tls /\ ~req.use_tls)
        /\ net[1].op = "connect"
        /\ net[1].use_tls <=> result.mode = "SMTPS"
        /\ OutcomeOf("starttls") = "ok" <=> result.mode = "SMTP+STARTTLS"
        /\ OutcomeOf("starttls") \in {"ok", "none"}
        /\ result.validate_certs = req.validate_certs
        /\ data.validate_certs = JBool(FALSE) => ~result.validate_certs
        /\ data.validate_certs.k = "absent" => result.validate_certs
        /\ data.start_tls = JBool(TRUE) => result.mode = "SMTP+STARTTLS"

C17_Witness ==
    /\ SmtpProbed
    /\ result.status = "success"
    /\ result.mode = "SMTP+STARTTLS"
    /\ OutcomeOf("starttls") = "ok"
    /\ ~result.validate_certs

\* the steps the SMTP probe of request r is to perform, in order
SmtpPlan(r) ==
    <<"connect">>
    \o (IF r.start_tls THEN <<"starttls">> ELSE <<>>)
    \o (IF NonEmpty(r.username) /\ NonEmpty(r.password)
        THEN <<"login">> ELSE <<>>)
    \o <<"quit">>

\* C18: the SMTP probe runs connect, then starttls (only if start_tls), then
\* login (only with both credentials), then quit; login starts only after
\* connect returned a greeting and, with start_tls, only after starttls
\* completed; after a fault in a step no later step is executed.
C18_SmtpStepOrder ==
    (req.class = "CheckRequestSMTP" /\ ~(req.use_tls /\ req.start_tls)) =>
        /\ Len(net) \in 1..Len(SmtpPlan(req))
        /\ \A i \in DOMAIN net : net[i].op = SmtpPlan(req)[i]
        /\ \A i \in 1..(Len(net) - 1) : net[i].out = "ok"
        /\ LoginAttempted =>
              /\ greeting \in Greetings
              /\ req.start_tls => OutcomeOf("starttls") = "ok"
        /\ (pc = "returned" /\ result.status = "success")
              => Len(net) = Len(SmtpPlan(req))
        /\ net[Len(net)].out \in SmtpFaults => pc = "returned"

C18_Witness ==
    /\ SmtpProbed
    /\ Len(net) = 4
    /\ net[2].op = "starttls"
    /\ net[3].op = "login"
    /\ net[4].out = "ok"
    /\ result.status = "success"

\* C19: the TLS context of the SMTP probe has hostname checking and
\* certificate verification both on when validate_certs is true and both
\* off when it is false, and that one context is what connect and starttls
\* are given.
C19_TlsContextAllOrNothing ==
    (req.class = "CheckRequestSMTP" /\ ~(req.use_tls /\ req.start_tls)) =>
        /\ tls_ctx.check_hostname = req.validate_certs
        /\ tls_ctx.verify_mode =
              IF req.validate_certs THEN "CERT_REQUIRED" ELSE "CERT_NONE"
        /\ data.validate_certs = JBool(FALSE) => ~tls_ctx.check_hostname
        /\ \A i \in DOMAIN net :
              net[i].op \in {"connect", "starttls"} => net[i].ctx = tls_ctx

C19_Witness ==
    /\ SmtpProbed
    /\ data.validate_certs = JBool(FALSE)
    /\ Len(net) >= 2
    /\ net[1].ctx = [check_hostname |-> FALSE, verify_mode |-> "CERT_NONE"]
    /\ net[2].op = "starttls"
    /\ net[2].ctx = net[1].ctx
    /\ net[2].out = "ok"

\* C20: whenever the IMAP probe opened a connection, logout is attempted
\* before the envelope is returned, on success and when the greeting or the
\* login failed alike, and a failure of logout is never the result.
C20_LogoutOnEveryPath ==
    (req.class = "CheckRequestIMAP" /\ pc = "returned" /\ net[1].out = "ok") =>
        /\ \E i \in DOMAIN net : net[i].op = "logout"
        /\ OutcomeOf("logout") \in ImapFaults => result.status = "success"


FieldsFor(t) ==
    CASE t = HTTP -> HTTPFields
      [] t = IMAP -> IMAPFields
      [] t = SMTP -> SMTPFields

\* payload d without the keys that the schema of probe t does not declare
Strip(t, d) ==
    [f \in DOMAIN NoData |-> IF f \in FieldsFor(t) THEN d[f] ELSE NoData[f]]

\* the payload carries a key that the schema of probe t does not declare
HasUndeclared(t) == Strip(t, data) # data

\* the envelope handler t returns for configuration r after the steps of log
EnvelopeFor(r, log, g) ==
    LET last == log[Len(log)]
    IN  CASE r.class = "CheckRequestHTTP" ->
                IF last.out = "response"
                THEN [status |-> "success",
                      protocol |-> IF r.port = 443 \/ r.ssl THEN "https"
                                   ELSE "http",
                      type |-> r.type, code |-> last.code,
                      headers |-> <<>>, body |-> <<>>]
                ELSE [status |-> "fail", type |-> r.type,
                      error |-> <<last.out>>]
          [] r.class = "CheckRequestIMAP" ->
                IF last.op = "logout"
                THEN [status |-> "success", type |-> r.type,
                      protocol |-> IF r.ssl THEN "imaps" ELSE "imap",
                      message |-> "IMAP connected!"]
                ELSE [status |-> "fail", type |-> r.type,
                      error |-> <<last.out>>]
          [] r.class = "CheckRequestSMTP" ->
                IF last.op = "quit" /\ last.out = "ok"
                THEN [status |-> "success", type |-> r.type,
                      protocol |-> "smtp", greeting_code |-> g.code,
                      greeting_message |-> g.msg,
                      mode |-> IF r.use_tls THEN "SMTPS"
                               ELSE IF r.start_tls THEN "SMTP+STARTTLS"
                               ELSE "PLAIN",
                      validate_certs |-> r.validate_certs]
                ELSE [status |-> "fail", type |-> r.type,
                      error |-> <<last.out>>]

\* C16: keys that the schema of the requested probe does not declare change
\* nothing: the request is rejected only if it is rejected without them,
\* the same probe runs with the same typed configuration, and the envelope
\* is the one of that configuration.
C16_UndeclaredFieldsIgnored ==
    \A t \in {HTTP, IMAP, SMTP} :
        (Dispatched /\ AsksFor(t)) =>
            LET bare == Construct(t, Strip(t, data))
            IN  /\ pc = "raised" <=> ~bare.ok
                /\ bare.ok =>
                      /\ req = bare.v
                      /\ calls = <<ClassFor(t), HandlerFor(t)>>
                      /\ (pc = "returned" /\ net # <<>>)
                            => result = EnvelopeFor(bare.v, net, greeting)

C16_Witness ==
    /\ pc = "returned"
    /\ AsksFor(HTTP)
    /\ data.extra > 0
    /\ data.host.k = "str"
    /\ data.use_tls = JBool(TRUE)
    /\ HasUndeclared(HTTP)
    /\ req = ConstructHTTP(Strip(HTTP, data)).v
    /\ result.status = "success"


AwaitSteps ==
    {"http_request", "imap_hello", "imap_login", "imap_logout",
     "smtp_connect", "smtp_starttls", "smtp_login", "smtp_quit"}

\* C14: a probe that is waiting in any of its blocking steps eventually
\* returns an envelope, even if the peer never answers; the expiry of a
\* step's timeout gives an ordinary "fail" envelope (or is swallowed, for
\* IMAP logout) and never escapes as an exception.
C14_ProbeEventuallyReturns ==
    /\ (pc \in AwaitSteps) ~> (pc = "returned")
    /\ [](((pc \in {"returned", "raised"}) /\ net # <<>>
             /\ net[Len(net)].out \in Timeouts) =>
            /\ pc = "returned"
            /\ exc = "none"
            /\ result.status =
                  IF net[Len(net)].op = "logout" THEN "success" ELSE "fail")

C14_Witness ==
    /\ pc = "returned"
    /\ net # <<>>
    /\ net[Len(net)].op = "wait_hello_from_server"
    /\ net[Len(net)].out = "TimeoutError"
    /\ result.status = "fail"
    /\ result.error = <<"TimeoutError">>


\* every request in flight: the running one and the suspended ones
InFlight == {Locals} \cup {parked[t] : t \in Tasks \ {cur}}

\* the TLS handshakes request s completed
Handshakes(s) ==
    {i \in DOMAIN s.net :
        /\ s.net[i].out = "ok"
        /\ \/ s.net[i].op = "starttls"
           \/ s.net[i].op = "connect" /\ s.net[i].use_tls}

\* request s is where it could be if it were the only request
AsAlone(s) ==
    /\ s.tls_ctx = IF s.req.class = "CheckRequestSMTP"
                   THEN TlsContext(s.req) ELSE NoCtx
    /\ \A i \in DOMAIN s.net :
          s.net[i].op \in {"connect", "starttls"} =>
              s.net[i].ctx = TlsContext(s.req)
    /\ \A i \in Handshakes(s) : TlsAccepts(TlsContext(s.req), s.cert)
    /\ s.pc = "returned" => s.result = EnvelopeFor(s.req, s.net, s.greeting)
    /\ s.pc # "raised"

\* C15: with several requests in flight, interleaved at their awaits, each
\* request keeps its own TLS context and its own connection log, and the
\* envelope it returns is the one its own request and its own peer's
\* behaviour give when it runs alone: a peer whose certificate the
\* request's own context rejects is never accepted because another request
\* relaxed verification, and the other way round.
C15_RequestsAreIsolated ==
    \A s \in InFlight : s.pc \notin {"idle", "received"} => AsAlone(s)

\* a request that verifies certificates has returned "fail" against a
\* self-signed peer while a request that does not verify them, started
\* in between, is in its own STARTTLS handshake
C15_Witness ==
    /\ pc = "returned"
    /\ req.class = "CheckRequestSMTP"
    /\ req.validate_certs
    /\ cert = "selfsigned"
    /\ Len(net) = 2
    /\ net[2].op = "starttls"
    /\ net[2].out = "SMTPException"
    /\ result.status = "fail"
    /\ \E t \in Tasks \ {cur} :
          /\ parked[t].pc = "smtp_starttls"
          /\ parked[t].req.class = "CheckRequestSMTP"
          /\ ~parked[t].req.validate_certs
          /\ parked[t].cert = "selfsigned"

====
